---- MODULE Spec2Model ----
(***************************************************************************)
(* Model of notebooks/.../Remote Model Registry Workflow.py: the artifact  *)
(* copy routine (copy_artifacts / _copy_artifact / _get_dbfs_endpoint) and *)
(* the notebook cells that register the copied artifacts as a model        *)
(* version in the remote registry.                                         *)
(*                                                                         *)
(* Strings are Python strings; the path helpers are computed character by  *)
(* character as posixpath / os.path compute them on the (posix) cluster.   *)
(***************************************************************************)
EXTENDS Naturals, Sequences, FiniteSets, TLC

(***************************************************************************)
(* Bounds of the model.                                                    *)
(***************************************************************************)
\* how many times the notebook is run top to bottom
MaxRuns == 2

(***************************************************************************)
(* Python string helpers.                                                  *)
(***************************************************************************)
\* str.startswith
StartsWith(s, p) == Len(s) >= Len(p) /\ SubSeq(s, 1, Len(p)) = p

\* str.endswith
EndsWith(s, p) == Len(s) >= Len(p) /\ SubSeq(s, Len(s) - Len(p) + 1, Len(s)) = p

\* `sub in s`
Contains(s, sub) ==
    \E i \in 1..(Len(s) + 1) :
        /\ i + Len(sub) - 1 <= Len(s)
        /\ SubSeq(s, i, i + Len(sub) - 1) = sub

\* the character of s at position i
CharAt(s, i) == SubSeq(s, i, i)

\* s.rstrip('/'): the shortest prefix of s that is followed by slashes only
RStripSlash(s) ==
    LET keep == {k \in 0..Len(s) : \A j \in (k + 1)..Len(s) : CharAt(s, j) = "/"}
    IN  SubSeq(s, 1, CHOOSE k \in keep : \A m \in keep : k <= m)

\* mlflow.utils.string_utils.strip_prefix
strip_prefix(original, prefix) ==
    IF StartsWith(original, prefix)
    THEN SubSeq(original, Len(prefix) + 1, Len(original))
    ELSE original

\* posixpath.join(a, b)  (os.path.join on the cluster)
posixpath_join(a, b) ==
    IF StartsWith(b, "/") THEN b
    ELSE IF a = "" \/ EndsWith(a, "/") THEN a \o b
    ELSE a \o "/" \o b

\* index of the last '/' of s, 0 when there is none (str.rfind + 1)
LastSlash(s) ==
    LET at == {i \in 1..Len(s) : CharAt(s, i) = "/"}
    IN  IF at = {} THEN 0 ELSE CHOOSE i \in at : \A j \in at : j <= i

\* os.path.basename
basename_of(p) == SubSeq(p, LastSlash(p) + 1, Len(p))

\* the positions of s at which a component starts: a character other than '/'
\* that is the first of s or follows a '/'
ComponentStarts(s) ==
    {i \in 1..Len(s) : CharAt(s, i) # "/" /\ (i = 1 \/ CharAt(s, i - 1) = "/")}

\* the last position of the component of s that starts at i
ComponentEnd(s, i) ==
    CHOOSE j \in i..Len(s) :
        /\ j = Len(s) \/ CharAt(s, j + 1) = "/"
        /\ \A k \in i..(j - 1) : CharAt(s, k + 1) # "/"

\* s.split('/') without the empty components (what normpath/abspath leave): the
\* maximal runs of characters other than '/', in order
Components(s) ==
    [n \in 1..Cardinality(ComponentStarts(s)) |->
        CHOOSE c \in {SubSeq(s, i, ComponentEnd(s, i)) :
                        i \in {m \in ComponentStarts(s) :
                                 Cardinality({k \in ComponentStarts(s) : k < m}) = n - 1}} :
            TRUE]

\* '/'.join(parts), from part i on
RECURSIVE JoinFrom(_, _)
JoinFrom(parts, i) ==
    IF i > Len(parts) THEN ""
    ELSE IF i = Len(parts) THEN parts[i]
    ELSE parts[i] \o "/" \o JoinFrom(parts, i + 1)

\* '/'.join(parts)
JoinSlash(parts) == JoinFrom(parts, 1)

\* length of the common prefix of two component lists
CommonLen(a, b) ==
    LET same == {k \in 0..Len(a) : k <= Len(b) /\ SubSeq(a, 1, k) = SubSeq(b, 1, k)}
    IN  CHOOSE k \in same : \A m \in same : m <= k

\* the relative path from the directory with components s to the one with
\* components p: one '..' for every component of s after the common prefix, then
\* the rest of p
RelativeComponents(p, s) ==
    [k \in 1..(Len(s) - CommonLen(p, s)) |-> ".."] \o SubSeq(p, CommonLen(p, s) + 1, Len(p))

\* os.path.relpath(path, start) for absolute posix paths (the two paths are split
\* once)
relpath(path, start) ==
    CHOOSE r \in {IF rel = <<>> THEN "." ELSE JoinSlash(rel) :
                    rel \in {RelativeComponents(p, s) :
                               p \in {Components(path)}, s \in {Components(start)}}} : TRUE

\* mlflow.utils.file_utils.relative_path_to_artifact_path: on a posix host
\* (os.path == posixpath) the path is returned as it is
relative_path_to_artifact_path(path) == path

(***************************************************************************)
(* Python exceptions: the class, e.message and e.error_code.               *)
(***************************************************************************)
NoExc == [type |-> "None", message |-> "", error_code |-> ""]

\* `except MlflowException`: RestException is a subclass of MlflowException
IsMlflowException(e) == e.type \in {"MlflowException", "RestException"}

\* the exception classes that carry an error_code attribute
HasErrorCode(e) == e.type \in {"MlflowException", "RestException"}

\* the call of the undefined name `throw` (lines 113 and 168)
ThrowNameError ==
    [type |-> "NameError", message |-> "name 'throw' is not defined", error_code |-> ""]

\* e.error_code on an exception e whose class has no such attribute (line 165):
\* the AttributeError names the class of e
ErrorCodeAttributeError(e) ==
    [type |-> "AttributeError",
     message |-> "'" \o e.type \o "' object has no attribute 'error_code'",
     error_code |-> ""]

(***************************************************************************)
(* The notebook's inputs and the local file system under local_dir.        *)
(***************************************************************************)
\* artifact_utils.get_artifact_uri(run_id): the run's artifact root
ArtifactUris == {"dbfs:/registry/run123", "dbfs:/registry/run123/"}

\* the USER INPUT artifact_path
ArtifactPaths == {"model", "/model", "model/", ""}

File(dir, name, size) == [dir |-> dir, name |-> name, size |-> size]

\* directory trees found under local_dir; dir is the chain of directory names
\* below local_dir, size is st_size
Trees ==
    { {},
      {File(<<>>, "MLmodel", 2), File(<<"data">>, "model.h5", 3)},
      {File(<<>>, "MLmodel", 2), File(<<>>, "empty.txt", 0)},
      {File(<<"data">>, "a", 0), File(<<"data", "sub">>, "b", 1)} }

FileSystems ==
    {[exists |-> FALSE, files |-> {}]} \cup {[exists |-> TRUE, files |-> t] : t \in Trees}

\* objects the registry workspace's DBFS may hold before the notebook runs
OldObject == [bytes |-> 7, origin |-> "old"]

InitialStores ==
    { <<>>,
      [e \in {"/dbfs/registry/run123/model/MLmodel"} |-> OldObject],
      [e \in {"/dbfs/registry/run123/data/a"} |-> OldObject] }

(***************************************************************************)
(* os.walk(local_dir)                                                      *)
(***************************************************************************)
IsPrefix(p, s) == Len(p) <= Len(s) /\ SubSeq(s, 1, Len(p)) = p

\* the regular files of directory d
FilesIn(files, d) == {f \in files : f.dir = d}

\* the names of the subdirectories of directory d
SubdirsIn(files, d) ==
    {f.dir[Len(d) + 1] : f \in {g \in files : IsPrefix(d, g.dir) /\ Len(g.dir) > Len(d)}}

\* the orders scandir may list a set of names in
Orders(S) ==
    {q \in [1..Cardinality(S) -> S] : \A i, j \in 1..Cardinality(S) : q[i] = q[j] => i = j}

\* scandir(top) inside os.walk: the OSError of a directory that does not exist
WalkScanError(filesystem) ==
    IF filesystem.exists THEN NoExc
    ELSE [type |-> "FileNotFoundError", message |-> "No such file or directory",
          error_code |-> ""]

\* os.walk(local_dir) is called without onerror: the error of scandir is dropped
WalkOnError(e) == NoExc

\* the first frame of the generator: when scandir(top) failed, walk yields nothing
WalkStart(filesystem, top) ==
    IF WalkScanError(filesystem) = NoExc
    THEN <<[comps |-> <<>>, dirpath |-> top]>>
    ELSE <<>>

\* the frames of the subdirectories of frame d, listed in order q: walk recurses
\* into os.path.join(top, dirname)
WalkChildren(d, q) ==
    [i \in 1..Len(q) |->
        [comps |-> Append(d.comps, q[i]), dirpath |-> posixpath_join(d.dirpath, q[i])]]

(***************************************************************************)
(* _get_dbfs_endpoint, _copy_artifact, copy_artifacts                      *)
(***************************************************************************)
\* line 87 (and the same expression for local_dir, line 120)
get_dbfs_endpoint(uri, path) ==
    "/dbfs/" \o strip_prefix(RStripSlash(uri), "dbfs:/") \o "/" \o strip_prefix(path, "/")

\* a variant that drops the subdirectory: every file lands directly under the root
HttpEndpoint_Flat(local_file, uri, subdir) ==
    get_dbfs_endpoint(uri, basename_of(local_file))

\* lines 90-94
HttpEndpoint(local_file, uri, subdir) ==
    IF subdir # ""
    THEN get_dbfs_endpoint(uri, posixpath_join(subdir, basename_of(local_file)))
    ELSE get_dbfs_endpoint(uri, basename_of(local_file))

\* lines 123-127
ArtifactSubdir(path, dirpath, top) ==
    IF dirpath # top
    THEN posixpath_join(path, relative_path_to_artifact_path(relpath(dirpath, top)))
    ELSE path

\* a variant without the special case of the empty file: the file is always opened
UploadRequest_AlwaysStream(local_file, endpoint, size) ==
    [endpoint |-> endpoint, method |-> "POST", allow_redirects |-> FALSE,
     opened |-> TRUE, data |-> [stream |-> local_file, bytes |-> size]]

\* a variant that writes with a replacing method
UploadRequest_Overwrite(local_file, endpoint, size) ==
    IF size = 0
    THEN [endpoint |-> endpoint, method |-> "PUT", allow_redirects |-> FALSE,
          opened |-> FALSE, data |-> [stream |-> "", bytes |-> 0]]
    ELSE [endpoint |-> endpoint, method |-> "PUT", allow_redirects |-> FALSE,
          opened |-> TRUE, data |-> [stream |-> local_file, bytes |-> size]]

\* lines 99-106: the request handed to http_request_safe; opened says whether
\* open(local_file, 'rb') was called
UploadRequest(local_file, endpoint, size) ==
    IF size = 0
    THEN [endpoint |-> endpoint, method |-> "POST", allow_redirects |-> FALSE,
          opened |-> FALSE, data |-> [stream |-> "", bytes |-> 0]]
    ELSE [endpoint |-> endpoint, method |-> "POST", allow_redirects |-> FALSE,
          opened |-> TRUE, data |-> [stream |-> local_file, bytes |-> size]]

\* a variant without the test of the message: the conflict is fatal too
HandleUploadError_NoTolerance(e) ==
    IF e = NoExc THEN NoExc
    ELSE IF IsMlflowException(e) THEN ThrowNameError
    ELSE e

\* a variant that prints every MlflowException and continues
HandleUploadError_SwallowAll(e) ==
    IF e = NoExc THEN NoExc
    ELSE IF IsMlflowException(e) THEN NoExc
    ELSE e

\* lines 107-113: what leaves _copy_artifact when the request raised e
HandleUploadError(e) ==
    IF e = NoExc THEN NoExc
    ELSE IF IsMlflowException(e)
         THEN (IF Contains(e.message, "File already exists") THEN NoExc ELSE ThrowNameError)
         ELSE e

\* a variant that notes the failure and goes on with the next file
LoopStep_ContinueOnError(out, names, name) ==
    [raise |-> FALSE, filenames |-> names \ {name}]

\* a variant that keeps a failed file in the list, to be tried again
LoopStep_Retry(out, names, name) ==
    [raise |-> FALSE, filenames |-> IF out # NoExc THEN names ELSE names \ {name}]

\* lines 128-130: an exception leaves the loops, otherwise the next name is taken
LoopStep(out, names, name) ==
    [raise |-> out # NoExc, filenames |-> names \ {name}]

(***************************************************************************)
(* The registry workspace's DBFS endpoint, as http_request_safe sees it.   *)
(***************************************************************************)
FileExistsError ==
    [type |-> "RestException", message |-> "RESOURCE_ALREADY_EXISTS: File already exists",
     error_code |-> "RESOURCE_ALREADY_EXISTS"]

\* failures of the request other than the conflict
UploadFaults ==
    { [type |-> "RestException", message |-> "PERMISSION_DENIED: Invalid access token",
       error_code |-> "PERMISSION_DENIED"],
      [type |-> "ConnectionError", message |-> "Connection refused", error_code |-> ""] }

\* the answer to a request: a fault leaves the store alone; a POST creates the
\* object or is refused when it exists; any other write replaces the object
DbfsAnswer(st, req, fault) ==
    LET body == [bytes |-> req.data.bytes, origin |-> req.data.stream]
        put == [e \in DOMAIN st \cup {req.endpoint} |->
                   IF e = req.endpoint THEN body ELSE st[e]]
    IN  IF fault # NoExc THEN [exc |-> fault, store |-> st]
        ELSE IF req.method = "POST" /\ req.endpoint \in DOMAIN st
             THEN [exc |-> FileExistsError, store |-> st]
             ELSE [exc |-> NoExc, store |-> put]

(***************************************************************************)
(* The model registry behind remote_client.                                *)
(***************************************************************************)
\* line 156
model_name == "my_remote_model"

\* the run whose artifacts are copied (the argument of line 135 and line 169)
run_id == "run123"

\* lines 189-191: the source workspace's api_url and orgId, from the notebook context
workspace_url == "https://ws.example"
workspace_id == "42"

\* line 192: "Remote source workspace: %s/?o=%s, run: %s." %
\*           (workspace_url, workspace_id, run_id)
description ==
    "Remote source workspace: " \o workspace_url \o "/?o=" \o workspace_id
        \o ", run: " \o run_id \o "."

ModelExistsError ==
    [type |-> "RestException",
     message |-> "RESOURCE_ALREADY_EXISTS: Registered Model already exists",
     error_code |-> "RESOURCE_ALREADY_EXISTS"]

\* failures of a registry call other than the conflict
RegistryFaults ==
    { [type |-> "RestException", message |-> "PERMISSION_DENIED: Invalid access token",
       error_code |-> "PERMISSION_DENIED"],
      [type |-> "ConnectionError", message |-> "Connection refused", error_code |-> ""] }

\* a variant that prints every exception and continues
HandleRegisterError_SwallowAll(e) == NoExc

\* lines 164-168: what leaves the try statement when create_registered_model raised e
HandleRegisterError(e) ==
    IF e = NoExc THEN NoExc
    ELSE IF ~HasErrorCode(e) THEN ErrorCodeAttributeError(e)
    ELSE IF e.error_code = "RESOURCE_ALREADY_EXISTS" THEN NoExc
    ELSE ThrowNameError

\* a notebook run stops at the first cell that raises
AfterCell(exc, next) == IF exc = NoExc THEN next ELSE "error"

(***************************************************************************)
(* State.                                                                  *)
(***************************************************************************)
VARIABLES
    artifact_uri,     \* line 135
    artifact_path,    \* line 70
    fs,               \* the local file system under local_dir
    store,            \* the registry workspace's DBFS: endpoint -> object
    registry,         \* the registry: registered models and model versions
    pc,               \* the statement the notebook is at
    run,              \* which run of the notebook this is
    raised,           \* the exception that stopped the notebook, or NoExc
    local_dir,        \* line 120
    todo,             \* os.walk: the directories still to be yielded
    cur,              \* os.walk: the directory yielded last
    artifact_subdir,  \* line 123/127
    filenames,        \* line 128: the names not yet iterated
    uploads,          \* the calls of _copy_artifact of this run, in order
    calls,            \* the registry calls of this run, in order
    mv,               \* line 169: the version mv is bound to, 0 while unbound; the
                      \* binding lasts until line 169 binds it again
    copied,           \* whether copy_artifacts returned in this run, and the store then
    prev              \* copied, of the previous run

vars == <<artifact_uri, artifact_path, fs, store, registry, pc, run, raised, local_dir,
          todo, cur, artifact_subdir, filenames, uploads, calls, mv, copied, prev>>

inputs == <<artifact_uri, artifact_path, fs>>
walkVars == <<local_dir, todo, cur, artifact_subdir, filenames>>

NoFrame == [comps |-> <<>>, dirpath |-> ""]
NotCopied == [returned |-> FALSE, store |-> <<>>]

Init ==
    /\ artifact_uri \in ArtifactUris
    /\ artifact_path \in ArtifactPaths
    /\ fs \in FileSystems
    /\ store \in InitialStores
    /\ registry = [models |-> {}, versions |-> <<>>]
    /\ pc = "copy_artifacts"
    /\ run = 1
    /\ raised = NoExc
    /\ local_dir = ""
    /\ todo = <<>>
    /\ cur = NoFrame
    /\ artifact_subdir = ""
    /\ filenames = {}
    /\ uploads = <<>>
    /\ calls = <<>>
    /\ mv = 0
    /\ copied = NotCopied
    /\ prev = NotCopied

(***************************************************************************)
(* copy_artifacts(artifact_uri, artifact_path), lines 119-130 (called at   *)
(* line 137).                                                              *)
(***************************************************************************)
\* lines 120-122: local_dir is computed and os.walk is started
CopyArtifactsStart ==
    /\ pc = "copy_artifacts"
    /\ local_dir' = get_dbfs_endpoint(artifact_uri, artifact_path)
    /\ todo' = WalkStart(fs, local_dir')
    /\ cur' = NoFrame
    /\ artifact_subdir' = ""
    /\ filenames' = {}
    /\ raised' = WalkOnError(WalkScanError(fs))
    /\ pc' = AfterCell(raised', "walk")
    /\ UNCHANGED <<inputs, store, registry, run, uploads, calls, mv, copied, prev>>

\* lines 122-127: os.walk yields the next directory
WalkNext ==
    /\ pc = "walk"
    /\ filenames = {}
    /\ todo # <<>>
    /\ \E q \in Orders(SubdirsIn(fs.files, Head(todo).comps)) :
          todo' = WalkChildren(Head(todo), q) \o Tail(todo)
    /\ cur' = Head(todo)
    /\ artifact_subdir' = ArtifactSubdir(artifact_path, Head(todo).dirpath, local_dir)
    /\ filenames' = {f.name : f \in FilesIn(fs.files, Head(todo).comps)}
    /\ UNCHANGED <<inputs, store, registry, pc, run, raised, local_dir, uploads, calls,
                   mv, copied, prev>>

\* lines 128-130 and 89-113: one iteration of the inner loop, _copy_artifact of
\* one file, answered by the remote with a fault or according to its store.  The
\* values are computed once each, in the order the program computes them.
CopyArtifact(faults) ==
    /\ pc = "walk"
    /\ filenames # {}
    /\ \E file \in FilesIn(fs.files, cur.comps), fault \in faults \cup {NoExc} :
       \E file_path \in {posixpath_join(cur.dirpath, file.name)} :
       \E http_endpoint \in {HttpEndpoint(file_path, artifact_uri, artifact_subdir)} :
       \E req \in {UploadRequest(file_path, http_endpoint, file.size)} :
       \E ans \in {DbfsAnswer(store, req, fault)} :
       \E out \in {HandleUploadError(ans.exc)} :
       \E step \in {LoopStep(out, filenames, file.name)} :
            /\ file.name \in filenames
            /\ store' = ans.store
            /\ uploads' = Append(uploads,
                   [file |-> file, request |-> req, response |-> ans.exc, out |-> out])
            /\ filenames' = step.filenames
            /\ raised' = IF step.raise THEN out ELSE NoExc
            /\ pc' = AfterCell(raised', "walk")
    /\ UNCHANGED <<inputs, registry, run, local_dir, todo, cur, artifact_subdir, calls, mv,
                   copied, prev>>

\* os.walk is exhausted: copy_artifacts returns and the cell at line 137 ends
CopyArtifactsReturn ==
    /\ pc = "walk"
    /\ filenames = {}
    /\ todo = <<>>
    /\ pc' = AfterCell(NoExc, "create_registered_model")
    /\ copied' = [returned |-> TRUE, store |-> store]
    /\ UNCHANGED <<inputs, store, registry, run, raised, walkVars, uploads, calls, mv, prev>>

(***************************************************************************)
(* The registry cells, lines 161-214.                                      *)
(***************************************************************************)
\* lines 162-168: create_registered_model inside the try statement
CreateRegisteredModel(faults) ==
    /\ pc = "create_registered_model"
    /\ \E fault \in faults \cup {NoExc} :
        LET exc == IF fault # NoExc THEN fault
                   ELSE IF model_name \in registry.models THEN ModelExistsError
                   ELSE NoExc
            out == HandleRegisterError(exc)
        IN  /\ registry' = IF exc = NoExc
                           THEN [registry EXCEPT !.models = @ \cup {model_name}]
                           ELSE registry
            /\ calls' = Append(calls, [op |-> "create_registered_model", version |-> 0,
                                        response |-> exc])
            /\ raised' = out
            /\ pc' = AfterCell(out, "create_model_version")
    /\ UNCHANGED <<inputs, store, run, walkVars, uploads, mv, copied, prev>>

\* line 169: mv = remote_client.create_model_version(model_name, source, run_id)
CreateModelVersion(faults) ==
    /\ pc = "create_model_version"
    /\ \E fault \in faults \cup {NoExc} :
        LET exc == IF fault # NoExc THEN fault
                   ELSE IF model_name \notin registry.models
                   THEN [type |-> "RestException",
                         message |-> "RESOURCE_DOES_NOT_EXIST: Registered Model not found",
                         error_code |-> "RESOURCE_DOES_NOT_EXIST"]
                   ELSE NoExc
            version == Len(registry.versions) + 1
        IN  /\ registry' = IF exc = NoExc
                           THEN [registry EXCEPT !.versions = Append(@,
                                    [source |-> posixpath_join(artifact_uri, artifact_path),
                                     description |-> "", stage |-> "None"])]
                           ELSE registry
            /\ mv' = IF exc = NoExc THEN version ELSE mv
            /\ calls' = Append(calls, [op |-> "create_model_version",
                                        version |-> IF exc = NoExc THEN version ELSE 0,
                                        response |-> exc])
            /\ raised' = exc
            /\ pc' = AfterCell(exc, "update_description")
    /\ UNCHANGED <<inputs, store, run, walkVars, uploads, copied, prev>>

\* line 197: update_model_version(model_name, mv.version, description=description)
UpdateDescription(faults) ==
    /\ pc = "update_description"
    /\ \E fault \in faults \cup {NoExc} :
        /\ registry' = IF fault = NoExc
                       THEN [registry EXCEPT !.versions[mv].description = description]
                       ELSE registry
        /\ calls' = Append(calls, [op |-> "update_description", version |-> mv,
                                    response |-> fault])
        /\ raised' = fault
        /\ pc' = AfterCell(fault, "transition_stage")
    /\ UNCHANGED <<inputs, store, run, walkVars, uploads, mv, copied, prev>>

\* lines 211-214: update_model_version(model_name, mv.version, stage='Production')
TransitionStage(faults) ==
    /\ pc = "transition_stage"
    /\ \E fault \in faults \cup {NoExc} :
        /\ registry' = IF fault = NoExc
                       THEN [registry EXCEPT !.versions[mv].stage = "Production"]
                       ELSE registry
        /\ calls' = Append(calls, [op |-> "transition_stage", version |-> mv,
                                    response |-> fault])
        /\ raised' = fault
        /\ pc' = AfterCell(fault, "done")
    /\ UNCHANGED <<inputs, store, run, walkVars, uploads, mv, copied, prev>>

\* the notebook is run again from the copy cell, in the same interpreter, against
\* the same source tree, the same registry workspace and the same registry; the
\* notebook's globals, mv among them, keep their values
RunAgain ==
    /\ pc \in {"done", "error"}
    /\ run < MaxRuns
    /\ run' = run + 1
    /\ pc' = "copy_artifacts"
    /\ raised' = NoExc
    /\ uploads' = <<>>
    /\ calls' = <<>>
    /\ prev' = copied
    /\ copied' = NotCopied
    /\ local_dir' = ""
    /\ todo' = <<>>
    /\ cur' = NoFrame
    /\ artifact_subdir' = ""
    /\ filenames' = {}
    /\ UNCHANGED <<inputs, store, registry, mv>>

(***************************************************************************)
(* Specifications.                                                         *)
(***************************************************************************)
\* every remote call may fail
Next ==
    \/ CopyArtifactsStart
    \/ WalkNext
    \/ CopyArtifact(UploadFaults)
    \/ CopyArtifactsReturn
    \/ CreateRegisteredModel(RegistryFaults)
    \/ CreateModelVersion(RegistryFaults)
    \/ UpdateDescription(RegistryFaults)
    \/ TransitionStage(RegistryFaults)
    \/ RunAgain

Spec == Init /\ [][Next]_vars

\* the notebook is one sequential thread and every remote call is answered: a
\* statement that can run, runs.  Running the notebook again is up to the user.
Fairness ==
    /\ WF_vars(CopyArtifactsStart)
    /\ WF_vars(WalkNext)
    /\ WF_vars(CopyArtifact(UploadFaults))
    /\ WF_vars(CopyArtifactsReturn)
    /\ WF_vars(CreateRegisteredModel(RegistryFaults))
    /\ WF_vars(CreateModelVersion(RegistryFaults))
    /\ WF_vars(UpdateDescription(RegistryFaults))
    /\ WF_vars(TransitionStage(RegistryFaults))

FairSpec == Spec /\ Fairness

\* the first run meets every failure; from the second run on the remote answers
\* every request according to its state
FaultsNow(faults) == IF run = 1 THEN faults ELSE {}

NextRerun ==
    \/ CopyArtifactsStart
    \/ WalkNext
    \/ CopyArtifact(FaultsNow(UploadFaults))
    \/ CopyArtifactsReturn
    \/ CreateRegisteredModel(FaultsNow(RegistryFaults))
    \/ CreateModelVersion(FaultsNow(RegistryFaults))
    \/ UpdateDescription(FaultsNow(RegistryFaults))
    \/ TransitionStage(FaultsNow(RegistryFaults))
    \/ RunAgain

RerunSpec == Init /\ [][NextRerun]_vars

(***************************************************************************)
(* Properties.                                                             *)
(*                                                                         *)
(* What the notebook's inputs denote, written down independently of the    *)
(* code's string handling: the directory chain of the artifact root and of *)
(* the relative artifact path.                                             *)
(***************************************************************************)
RootChain(uri) == <<"registry", "run123">>

RelChain(path) == IF path = "" THEN <<>> ELSE <<"model">>

\* the chain a/b/c written as /a/b/c
RECURSIVE SlashPath(_)
SlashPath(chain) ==
    IF chain = <<>> THEN "" ELSE "/" \o Head(chain) \o SlashPath(Tail(chain))

\* the chain of file f below the artifact root: relative path, subdirectories, basename
FileChain(f) == RelChain(artifact_path) \o f.dir \o <<f.name>>

\* the endpoint the registry workspace serves file f at (and, on the local
\* workspace, the path the file is read from)
DbfsPath(f) == "/dbfs" \o SlashPath(RootChain(artifact_uri) \o FileChain(f))

\* the endpoint of file f as the specification's example writes it
UriPath(f) == "dbfs:" \o SlashPath(RootChain(artifact_uri) \o FileChain(f))

RequestedEndpoints == {uploads[i].request.endpoint : i \in 1..Len(uploads)}

\* the upload was answered with a failure other than the conflict
FailedUpload(u) == u.response # NoExc /\ u.response # FileExistsError

\* the notebook stopped inside copy_artifacts
CopyRaised == pc = "error" /\ ~copied.returned

\* C1 (as stated): after copy_artifacts returns, the endpoints requested are exactly
\* {destinationRoot}/{relativeSubpath}/{basename} for the files of the tree, e.g.
\* dbfs:/registry/run123/model/MLmodel.
C1_EndpointsAsStated ==
    copied.returned => RequestedEndpoints = {UriPath(f) : f \in fs.files}

\* C1 (amended): after copy_artifacts returns, one upload was requested per file of
\* the tree, and the endpoints requested are exactly
\* /dbfs/{root without dbfs:/}/{relative path}/{subdirectories}/{basename}.
C1_Endpoints ==
    copied.returned =>
        /\ RequestedEndpoints = {DbfsPath(f) : f \in fs.files}
        /\ Len(uploads) = Cardinality(fs.files)
        /\ \A i \in 1..Len(uploads) : uploads[i].request.endpoint = DbfsPath(uploads[i].file)

C1_Witness ==
    /\ copied.returned
    /\ Len(uploads) = 2
    /\ \E i \in 1..Len(uploads) : uploads[i].file.dir # <<>>
    /\ artifact_path = "model"

\* C2: when the previous run's copy_artifacts returned, this run's copy_artifacts
\* raises nothing, every upload of it is answered with the conflict and handled by
\* the conflict branch, and the store stays what it was after the previous run.
C2_Idempotent ==
    (run > 1 /\ prev.returned) =>
        /\ ~CopyRaised
        /\ store = prev.store
        /\ \A i \in 1..Len(uploads) :
              uploads[i].response = FileExistsError /\ uploads[i].out = NoExc
        /\ copied.returned => Len(uploads) = Cardinality(fs.files)

C2_Witness ==
    /\ run > 1
    /\ prev.returned
    /\ copied.returned
    /\ Len(uploads) = 2

\* C3: a failed upload (other than the conflict) is the last upload of the run: the
\* run has stopped, no later file is requested, and no file is requested twice.
C3_AbortsAtFirstFailure ==
    \A i \in 1..Len(uploads) :
        /\ FailedUpload(uploads[i]) => (i = Len(uploads) /\ CopyRaised /\ calls = <<>>)
        /\ \A j \in 1..Len(uploads) : uploads[i].file = uploads[j].file => i = j

C3_Witness ==
    /\ Len(uploads) = 1
    /\ FailedUpload(uploads[1])
    /\ Cardinality(fs.files) = 2
    /\ pc = "error"

\* C4: only the conflict is recovered; any other error of an upload reaches the
\* caller of copy_artifacts unchanged (same class, code and message).
C4_PropagatesUnchanged ==
    /\ \A i \in 1..Len(uploads) :
          (uploads[i].response # NoExc /\ uploads[i].out = NoExc)
              => uploads[i].response = FileExistsError
    /\ \A i \in 1..Len(uploads) :
          FailedUpload(uploads[i]) => (CopyRaised /\ raised = uploads[i].response)

\* C5: when local_dir does not exist, copy_artifacts raises a not-found error (and
\* so never returns), before any upload.  The program does not: os.walk drops the
\* error of listing the missing directory, copy_artifacts returns with no upload
\* made and the notebook goes on to the registry cells.
C5_MissingRaisesAsStated ==
    ~fs.exists =>
        /\ uploads = <<>>
        /\ ~copied.returned
        /\ pc \notin {"copy_artifacts", "walk"} =>
              (CopyRaised /\ raised.type = "FileNotFoundError")

\* C6: every upload is a POST that does not follow redirects; a file of size zero is
\* sent with an empty body and is not opened; any other file is opened and its byte
\* stream is the body.
C6_RequestShape ==
    \A i \in 1..Len(uploads) :
        LET u == uploads[i] IN
        /\ u.request.method = "POST"
        /\ u.request.allow_redirects = FALSE
        /\ u.file.size = 0 =>
              (~u.request.opened /\ u.request.data.stream = "" /\ u.request.data.bytes = 0)
        /\ u.file.size # 0 =>
              /\ u.request.opened
              /\ u.request.data.stream = DbfsPath(u.file)
              /\ u.request.data.bytes = u.file.size

C6_Witness ==
    /\ Len(uploads) = 2
    /\ \E i \in 1..2 : uploads[i].file.size = 0
    /\ \E i \in 1..2 : uploads[i].file.size # 0

\* an object of the store is still there, with the same content, after the step
StoreKept ==
    \A e \in DOMAIN store : e \in DOMAIN store' /\ store'[e] = store[e]

\* the uploads of this run that were answered with success are in the store
UploadedPresent ==
    \A i \in 1..Len(uploads) :
        uploads[i].response = NoExc =>
            /\ uploads[i].request.endpoint \in DOMAIN store
            /\ store[uploads[i].request.endpoint].bytes = uploads[i].file.size

\* C7: no step removes or changes an object of the destination store, and the files
\* uploaded earlier in a run are in the store whatever happens later in the run
\* (also when it is aborted).
C7_NoRollback == [][StoreKept]_vars /\ []UploadedPresent

C7_Witness ==
    /\ CopyRaised
    /\ Len(uploads) = 2
    /\ uploads[1].response = NoExc
    /\ \E e \in DOMAIN store : store[e] = OldObject

\* the files of the tree that an upload of this run was requested for
Attempted == {uploads[i].file : i \in 1..Len(uploads)}

\* C8: copy_artifacts never requests a file twice, has requested every file exactly
\* once when it returns, and once started it ends: it returns or raises.
C8_Terminates ==
    /\ [](Cardinality(Attempted) = Len(uploads) /\ Attempted \subseteq fs.files)
    /\ [](copied.returned => Attempted = fs.files)
    /\ (pc \in {"copy_artifacts", "walk"}) ~> (copied.returned \/ CopyRaised)

C8_Witness ==
    /\ copied.returned
    /\ Len(uploads) = 2
    /\ \E i \in 1..2 : uploads[i].response = FileExistsError
    /\ \E i \in 1..2 : uploads[i].response = NoExc

\* C9: create_model_version is called only after copy_artifacts returned, when every
\* file of the tree has an object at its endpoint; the transition to Production is
\* called only after create_model_version returned the version it names.
C9_WorkflowOrder ==
    \A i \in 1..Len(calls) :
        /\ calls[i].op = "create_model_version" =>
              /\ copied.returned
              /\ \A f \in fs.files : DbfsPath(f) \in DOMAIN store
        /\ calls[i].op = "transition_stage" =>
              \E j \in 1..(i - 1) :
                  /\ calls[j].op = "create_model_version"
                  /\ calls[j].response = NoExc
                  /\ calls[j].version = calls[i].version
                  /\ calls[j].version \in 1..Len(registry.versions)

C9_Witness ==
    /\ pc = "done"
    /\ Cardinality(fs.files) = 2
    /\ mv > 0
    /\ registry.versions[mv].stage = "Production"

\* C10: a create_registered_model that fails with RESOURCE_ALREADY_EXISTS is followed
\* by create_model_version, which adds a version to the existing model; one that
\* fails otherwise stops the notebook, and create_model_version is not called.
C10_Registration ==
    \A i \in 1..Len(calls) :
        calls[i].op = "create_registered_model" =>
            /\ calls[i].response.error_code = "RESOURCE_ALREADY_EXISTS" =>
                  /\ model_name \in registry.models
                  /\ i = Len(calls) => (pc = "create_model_version" /\ raised = NoExc)
                  /\ i < Len(calls) => calls[i + 1].op = "create_model_version"
            /\ (calls[i].response # NoExc
                  /\ calls[i].response.error_code # "RESOURCE_ALREADY_EXISTS") =>
                  /\ i = Len(calls)
                  /\ pc = "error"
                  /\ raised # NoExc
                  /\ \A j \in 1..Len(calls) : calls[j].op # "create_model_version"

C10_Witness ==
    /\ run > 1
    /\ Len(calls) > 1
    /\ calls[1].response = ModelExistsError
    /\ calls[2].op = "create_model_version"
    /\ calls[2].response = NoExc
    /\ Len(registry.versions) = 2

====
